---- MODULE Spec2Model ----
(***************************************************************************)
(* Model of image_match/elasticsearchflat_driver.py: the SignatureES       *)
(* driver (search_single_record, insert_single_record, delete_duplicates,  *)
(* add_image, search_image) over an Elasticsearch index.                   *)
(*                                                                         *)
(* Images are 2x2 pixel grids <<a, b, c, d>> (row major), signatures have  *)
(* N = 4 cells, distances are counted in units of 1/DistMax.               *)
(***************************************************************************)
EXTENDS Integers, Sequences, FiniteSets

\* ------------------------------------------------------------------ bounds
\* insertions in the search scenarios
MaxDocs == 2
\* self.size and self.minimum_should_match, scaled to signatures of 4 words
size == 1
minimum_should_match == 2
\* insertions in the duplicates scenario
MaxDupDocs == 11

\* hits of an es.search call that passes no size
DefaultSize == 10

None == "None"

\* ------------------------------------------------------------------ helpers
Range(s) == {s[i] : i \in 1..Len(s)}

Abs(x) == IF x < 0 THEN -x ELSE x

RECURSIVE SumSeq(_)
SumSeq(s) == IF s = <<>> THEN 0 ELSE Head(s) + SumSeq(Tail(s))

RemoveAt(s, i) == SubSeq(s, 1, i - 1) \o SubSeq(s, i + 1, Len(s))

\* ------------------------------------------------------------------ numpy
\* lambda x: x
Identity(x) == x

\* lambda x: -x
Negate(x) == [i \in 1..4 |-> -x[i]]

\* np.fliplr: [[a, b], [c, d]] -> [[b, a], [d, c]]
Fliplr(x) == <<x[2], x[1], x[4], x[3]>>

\* np.rot90 (counterclockwise): [[a, b], [c, d]] -> [[b, d], [a, c]]
Rot90(x) == <<x[2], x[4], x[1], x[3]>>

\* ------------------------------------------------- signature_database_base
\* make_record's signature: the differences between consecutive cells of the
\* flattened image
Signature(x) == <<x[1] - x[2], x[2] - x[3], x[3] - x[4], x[4] - x[1]>>

\* make_record's words: one token per window of two neighbouring cells
Words(sig) == [i \in 1..4 |-> 3 * (sig[i] + 1) + (sig[(i % 4) + 1] + 1)]

\* make_record(path, gis, k, N, img=None, metadata=None, flat=True); pixels is
\* the image gis.generate_signature reads (img when given, else path)
make_record(path, pixels, metadata) ==
    LET sig == Signature(pixels)
        base == [path |-> path, signature |-> sig, simple_words |-> Words(sig)]
    IN  IF metadata = None
        THEN base
        ELSE [f \in {"path", "signature", "simple_words", "metadata"} |->
                 IF f = "metadata" THEN metadata ELSE base[f]]

\* normalized_distance: 0 for identical signatures, DistMax (1.0) at most
DistMax == 8
normalized_distance(a, b) == SumSeq([i \in 1..4 |-> Abs(a[i] - b[i])])

\* ------------------------------------------------------------------ state
VARIABLES
    store,             \* the index: document id -> stored document body
    next_id,           \* the id the store assigns to the next document
    clock,             \* what datetime.now() reads; later for each document written
    last,              \* the last store operation a caller ran, as observed
    distance_cutoff,   \* self.distance_cutoff
    pc,                \* position of the search_image call
    img,               \* search_image: the preprocessed query image
    pre_filter,        \* search_image: the pre_filter argument
    all_orientations,  \* search_image: the all_orientations argument
    pending,           \* search_image: transforms the loop has not visited
    result,            \* search_image: the local list result
    ret,               \* what the last call gave its caller
    queried,           \* pixel data -> number of passes that queried with it
    es_failed,         \* some es.search of the current call raised
    prev               \* (id, dist) pairs of the previous identical call

vars == <<store, next_id, clock, last, distance_cutoff, pc, img, pre_filter, all_orientations,
          pending, result, ret, queried, es_failed, prev>>

\* ------------------------------------------------------------------ Elasticsearch
\* the "match" query on simple_words: number of query tokens the document has
Score(words, doc) == Cardinality(Range(words) \cap Range(doc.simple_words))

\* hits ordered by descending _score, then by id
RECURSIVE Ranked(_, _, _)
Ranked(st, ids, words) ==
    IF ids = {} THEN <<>>
    ELSE LET best == CHOOSE i \in ids : \A j \in ids :
                         \/ Score(words, st[i]) > Score(words, st[j])
                         \/ Score(words, st[i]) = Score(words, st[j]) /\ i <= j
         IN  <<best>> \o Ranked(st, ids \ {best}, words)

\* es.search(index, doc_type, body=query, size, timeout)['hits']['hits']
es_search(st, words, filter, limit) ==
    LET ids == {i \in DOMAIN st :
                   /\ Score(words, st[i]) >= minimum_should_match
                   /\ filter \in {None, st[i].path}}
        ranked == Ranked(st, ids, words)
    IN  [k \in 1..(IF Len(ranked) < limit THEN Len(ranked) ELSE limit) |->
            [_id |-> ranked[k], _score |-> Score(words, st[ranked[k]]),
             _source |-> st[ranked[k]]]]

\* the tokens the analyzer cuts a path into
PathTokens(path) == IF path = "img/a.jpg" THEN {"img", "a.jpg"} ELSE {"img", "b.jpg"}

\* the "match" query on path: number of query tokens the document's path has
PathScore(path, doc) == Cardinality(PathTokens(path) \cap PathTokens(doc.path))

RECURSIVE RankedByPath(_, _, _)
RankedByPath(st, ids, path) ==
    IF ids = {} THEN <<>>
    ELSE LET best == CHOOSE i \in ids : \A j \in ids :
                         \/ PathScore(path, st[i]) > PathScore(path, st[j])
                         \/ PathScore(path, st[i]) = PathScore(path, st[j]) /\ i <= j
         IN  <<best>> \o RankedByPath(st, ids \ {best}, path)

\* es.search(body={'query': {'match': {'path': path}}}, index)['hits']['hits']:
\* no size is given, the store answers with its default number of hits
es_search_path(st, path) ==
    LET ids == {i \in DOMAIN st : PathScore(path, st[i]) >= 1}
        ranked == RankedByPath(st, ids, path)
    IN  [k \in 1..(IF Len(ranked) < DefaultSize THEN Len(ranked) ELSE DefaultSize) |->
            [_id |-> ranked[k], _source |-> st[ranked[k]]]]

\* es.index(index, doc_type, body, refresh): the store with the new document
es_index(st, id, body) ==
    [i \in DOMAIN st \cup {id} |-> IF i = id THEN body ELSE st[i]]

\* es.delete(index, doc_type, id) for each id of a set
es_delete(st, ids) == [i \in DOMAIN st \ ids |-> st[i]]

\* ------------------------------------------------------------------ SignatureES
\* dict.pop(key)
Pop(rec, key) == [f \in DOMAIN rec \ {key} |-> rec[f]]

\* dict.get(key), with default None
Get(rec, key) == IF key \in DOMAIN rec THEN rec[key] ELSE None

at_or_below_cutoff(dist) == dist <= distance_cutoff

\* lambda y: y['dist'] < self.distance_cutoff
below_cutoff(dist) == dist < distance_cutoff

\* variant: the record read, not popped
not_popped(rec) == rec

\* search_single_record, lines 70-73: the record after the pops
popped(rec) ==
    LET rec1 == Pop(Pop(rec, "path"), "signature")
    IN  IF "metadata" \in DOMAIN rec1 THEN Pop(rec1, "metadata") ELSE rec1

\* search_single_record, lines 75-118: query, distances, formatting, cutoff
rerank(rec, filter) ==
    LET signature == rec.signature
        res == es_search(store, popped(rec).simple_words, filter, size)
        formatted_res ==
            [i \in 1..Len(res) |->
                [id |-> res[i]._id,
                 score |-> res[i]._score,
                 metadata |-> Get(res[i]._source, "metadata"),
                 path |-> res[i]._source.path,
                 dist |-> normalized_distance(res[i]._source.signature, signature)]]
    IN  SelectSeq(formatted_res, LAMBDA y : below_cutoff(y.dist))

\* variant: a store failure answered with an empty list
swallow_store_failure(rec, filter, es_up) ==
    [rec |-> popped(rec), raised |-> FALSE,
     value |-> IF es_up THEN rerank(rec, filter) ELSE <<>>]

\* search_single_record(rec, pre_filter) while the store answers (es_up) or
\* fails: the record as the call leaves it, whether the call raised, and the
\* list it returned
search_single_record(rec, filter, es_up) ==
    [rec |-> popped(rec), raised |-> ~es_up,
     value |-> IF es_up THEN rerank(rec, filter) ELSE <<>>]

\* rec['timestamp'] = datetime.now()
stamped(rec, t) ==
    [f \in DOMAIN rec \cup {"timestamp"} |-> IF f = "timestamp" THEN t ELSE rec[f]]

\* variant: es.index's answer handed back to the caller
insert_returning_id(rec, es_up) ==
    [rec |-> stamped(rec, clock), raised |-> ~es_up,
     store |-> IF es_up THEN es_index(store, next_id, stamped(rec, clock)) ELSE store,
     value |-> <<next_id>>]

\* insert_single_record(rec) while the store answers (es_up) or fails: the
\* record as the call leaves it, whether it raised, the store, the value returned
insert_single_record(rec, es_up) ==
    [rec |-> stamped(rec, clock), raised |-> ~es_up,
     store |-> IF es_up THEN es_index(store, next_id, stamped(rec, clock)) ELSE store,
     value |-> <<>>]

\* delete_duplicates, lines 130-137: the ids of the hits whose path is path
matching_paths(path) ==
    LET hits == es_search_path(store, path)
        kept == SelectSeq(hits, LAMBDA item : item._source.path = path)
    IN  [k \in 1..Len(kept) |-> kept[k]._id]

\* the function objects search_image builds
inversions == <<"inv_identity", "inv_negate">>
mirrors == <<"mir_identity", "np.fliplr">>
rotations == <<"rot_identity", "np.rot90", "rot90_2", "rot90_3">>

\* itertools.product(inversions, rotations, mirrors)
product == {<<i, r, m>> : i \in Range(inversions), r \in Range(rotations),
                          m \in Range(mirrors)}

\* set(np.ravel(list(orientations)))
orientations(all) ==
    IF all THEN UNION {Range(t) : t \in product} ELSE {"identity"}

\* transform(img)
Apply(f, x) ==
    CASE f \in {"identity", "inv_identity", "mir_identity", "rot_identity"} -> Identity(x)
      [] f = "inv_negate" -> Negate(x)
      [] f = "np.fliplr" -> Fliplr(x)
      [] f = "np.rot90" -> Rot90(x)
      [] f = "rot90_2" -> Rot90(Rot90(x))
      [] f = "rot90_3" -> Rot90(Rot90(Rot90(x)))

\* the loop over result that fills unique and ids
RECURSIVE unique_loop(_, _, _)
unique_loop(items, ids, unique) ==
    IF items = <<>> THEN unique
    ELSE IF Head(items).id \notin ids
         THEN unique_loop(Tail(items), ids \cup {Head(items).id},
                          Append(unique, Head(items)))
         ELSE unique_loop(Tail(items), ids, unique)

\* variants of the merge: no merge at all, and last occurrence kept
keep_all(items) == items

RECURSIVE keep_last(_)
keep_last(items) ==
    IF items = <<>> THEN <<>>
    ELSE IF \E j \in 2..Len(items) : items[j].id = Head(items).id
         THEN keep_last(Tail(items))
         ELSE <<Head(items)>> \o keep_last(Tail(items))

Unique(items) == unique_loop(items, {}, <<>>)

\* variant: the list left in merge order
unsorted(s) == s

\* sorted(unique, key=itemgetter('dist')): stable, ascending
RECURSIVE sorted(_)
sorted(s) ==
    IF s = <<>> THEN <<>>
    ELSE LET m == CHOOSE i \in 1..Len(s) :
                      /\ \A j \in 1..Len(s) : s[i].dist <= s[j].dist
                      /\ \A j \in 1..(i - 1) : s[j].dist > s[i].dist
         IN  <<s[m]>> \o sorted(RemoveAt(s, m))

\* what a call gives its caller: the returned list, or for a call that returns
\* one value the sequence of that value, empty when the call returns None
Returned(v) == [kind |-> "return", value |-> v]
Raised == [kind |-> "raise", value |-> <<>>]
NoCall == [kind |-> "none", value |-> <<>>]

Pairs(r) == {<<r[i].id, r[i].dist>> : i \in 1..Len(r)}

\* what a store operation left behind for its caller to observe
NoOp == [op |-> "none"]

\* ------------------------------------------------------------------ inputs
Paths == {"img/a.jpg", "img/b.jpg"}
QueryImages == {<<0, 1, 0, 1>>, <<0, 0, 0, 0>>}
Cutoffs == {0, DistMax \div 2, DistMax}
PreFilters == {None, "img/a.jpg"}

\* the images add_image is called with: path, pixels, metadata
Corpus == {<<"img/a.jpg", <<1, 1, 0, 0>>, None>>, <<"img/b.jpg", <<0, 1, 0, 1>>, "meta">>}

\* ------------------------------------------------------------------ search_image
Init ==
    /\ store = <<>>
    /\ next_id = 1
    /\ clock = 1
    /\ last = NoOp
    /\ distance_cutoff \in Cutoffs
    /\ pc = "idle"
    /\ img = <<>>
    /\ pre_filter = None
    /\ all_orientations = FALSE
    /\ pending = {}
    /\ result = <<>>
    /\ ret = NoCall
    /\ queried = {}
    /\ es_failed = FALSE
    /\ prev = {}

search_vars == <<img, pre_filter, all_orientations, pending, result, queried,
                 es_failed, prev>>

\* add_image(path, img, metadata=metadata): make_record, insert_single_record
add_image(path, image, metadata, es_up) ==
    /\ pc = "idle"
    /\ LET rec == make_record(path, image, metadata)
           out == insert_single_record(rec, es_up)
       IN  /\ store' = out.store
           /\ next_id' = IF es_up THEN next_id + 1 ELSE next_id
           /\ last' = [op |-> "insert_single_record", rec_in |-> rec,
                       rec_out |-> out.rec, raised |-> out.raised,
                       before |-> store, id |-> next_id, time |-> clock]
           /\ ret' = IF out.raised THEN Raised ELSE Returned(out.value)
    /\ clock' = IF es_up THEN clock + 1 ELSE clock
    /\ UNCHANGED <<distance_cutoff, pc, search_vars>>

\* a caller hands search_single_record a record of its own
search_single_record_call(path, image, metadata, filter, es_up) ==
    /\ pc = "idle"
    /\ LET rec == make_record(path, image, metadata)
           out == search_single_record(rec, filter, es_up)
       IN  /\ last' = [op |-> "search_single_record", rec_in |-> rec,
                       rec_out |-> out.rec, raised |-> out.raised]
           /\ ret' = IF out.raised THEN Raised ELSE Returned(out.value)
    /\ UNCHANGED <<store, next_id, clock, distance_cutoff, pc, search_vars>>

\* delete_duplicates(path): the search answers or fails (es_up), and the
\* first n_ok deletions succeed
delete_duplicates(path, es_up, n_ok) ==
    /\ pc = "idle"
    /\ LET ids == matching_paths(path)
           doomed == IF Len(ids) > 0 THEN Tail(ids) ELSE <<>>
           raised == ~es_up \/ n_ok < Len(doomed)
           gone == IF es_up THEN {doomed[k] : k \in 1..n_ok} ELSE {}
       IN  /\ es_up => n_ok <= Len(doomed)
           /\ ~es_up => n_ok = 0
           /\ store' = es_delete(store, gone)
           /\ last' = [op |-> "delete_duplicates", path |-> path,
                       k |-> Cardinality({i \in DOMAIN store : store[i].path = path}),
                       deleted |-> Cardinality(gone), raised |-> raised]
           /\ ret' = IF raised THEN Raised ELSE Returned(<<>>)
    /\ UNCHANGED <<next_id, clock, distance_cutoff, pc, search_vars>>

\* search_image up to the loop: preprocess_image and the set of transforms
Begin(path, all, filter, previous) ==
    /\ img' = path
    /\ all_orientations' = all
    /\ pre_filter' = filter
    /\ pending' = orientations(all)
    /\ result' = <<>>
    /\ ret' = NoCall
    /\ queried' = {}
    /\ es_failed' = FALSE
    /\ prev' = previous
    /\ pc' = "loop"
    /\ last' = NoOp
    /\ UNCHANGED <<store, next_id, clock, distance_cutoff>>

\* a caller calls search_image
search_image(path, all, filter) ==
    /\ pc = "idle"
    /\ Begin(path, all, filter, {})

\* a caller repeats the call that just returned, with the same arguments
search_image_again ==
    /\ pc = "done"
    /\ prev = {}
    /\ Begin(img, all_orientations, pre_filter, {Pairs(ret.value)})

\* one iteration of the loop over the set orientations, in the order the set
\* yields its elements; the last one runs on into the merge, sort and return
search_image_pass(transform, es_up) ==
    /\ pc = "loop"
    /\ transform \in pending
    /\ LET transformed_img == Apply(transform, img)
           transformed_record == make_record(transformed_img, transformed_img, None)
           l == search_single_record(transformed_record, pre_filter, es_up)
           extended == result \o l.value
       IN  /\ es_failed' = (es_failed \/ ~es_up)
           /\ IF l.raised
              THEN \* the exception leaves search_image: the loop is abandoned,
                   \* result keeps what the earlier passes had gathered
                   /\ pc' = "error"
                   /\ ret' = Raised
                   /\ pending' = {}
                   /\ queried' = {}
                   /\ UNCHANGED result
              ELSE /\ queried' = queried \cup {<<transform, transformed_img>>}
                   /\ pending' = pending \ {transform}
                   /\ result' = extended
                   /\ IF pending' = {}
                      THEN /\ pc' = "done"
                           /\ ret' = Returned(sorted(Unique(extended)))
                      ELSE /\ pc' = "loop"
                           /\ ret' = ret
    /\ UNCHANGED <<store, next_id, clock, last, distance_cutoff, img, pre_filter,
                   all_orientations, prev>>

Next ==
    \/ \E doc \in Corpus, es_up \in BOOLEAN :
           clock <= MaxDocs /\ add_image(doc[1], doc[2], doc[3], es_up)
    \/ \E doc \in Corpus, filter \in PreFilters, es_up \in BOOLEAN :
           search_single_record_call(doc[1], doc[2], doc[3], filter, es_up)
    \/ \E path \in Paths, es_up \in BOOLEAN, n_ok \in 0..MaxDocs :
           delete_duplicates(path, es_up, n_ok)
    \/ \E path \in QueryImages, all \in BOOLEAN, filter \in PreFilters :
           search_image(path, all, filter)
    \/ search_image_again
    \/ \E transform \in pending, es_up \in BOOLEAN :
           search_image_pass(transform, es_up)

Spec == Init /\ [][Next]_vars

\* ------------------------------------------------------------------ duplicates
\* the scenario of one image inserted many times under one path, cleaned up
\* at any moment
BlankImage == <<0, 0, 0, 0>>
DupPath == "img/a.jpg"

InitDup == Init /\ distance_cutoff = DistMax

NextDup ==
    \/ clock <= MaxDupDocs /\ add_image(DupPath, BlankImage, None, TRUE)
    \/ \E es_up \in BOOLEAN, n_ok \in 0..DefaultSize :
           delete_duplicates(DupPath, es_up, n_ok)

SpecDup == InitDup /\ [][NextDup]_vars

\* ------------------------------------------------------------------ properties
NoDuplicateIds(r) == \A i, j \in 1..Len(r) : r[i].id = r[j].id => i = j

Ascending(r) == \A i \in 1..(Len(r) - 1) : r[i].dist <= r[i + 1].dist

\* index of the first entry of r that reports id
FirstIndex(r, id) == CHOOSE i \in 1..Len(r) :
                         r[i].id = id /\ \A j \in 1..(i - 1) : r[j].id # id

\* the candidates the store holds for a pass, before the cutoff: their distances
CandidateDists(pass) ==
    LET sig == Signature(pass[2])
        hits == es_search(store, Words(sig), pre_filter, size)
    IN  {normalized_distance(hits[i]._source.signature, sig) : i \in 1..Len(hits)}

\* inversion o rotation o mirror
Compose(t, x) == Apply(t[1], Apply(t[2], Apply(t[3], x)))

\* C1: a list returned by search_image holds each document id at most once
C1_UniqueIds == pc = "done" => NoDuplicateIds(ret.value)

\* C1 case: several passes of an all_orientations call reported the same id
C1_Witness ==
    /\ pc = "done" /\ all_orientations /\ ret.value # <<>>
    /\ ~NoDuplicateIds(result)

\* C2: every entry a pass hands back, and every entry search_image returns,
\* has dist strictly below distance_cutoff; with cutoff 0 the result is empty
C2_BelowCutoff ==
    /\ \A i \in 1..Len(result) : result[i].dist < distance_cutoff
    /\ ret.kind = "return" =>
          /\ \A i \in 1..Len(ret.value) : ret.value[i].dist < distance_cutoff
          /\ distance_cutoff = 0 => ret.value = <<>>

\* C2 case: a candidate whose dist equals the cutoff was retrieved and dropped
C2_Witness ==
    /\ pc = "done" /\ ret.value # <<>>
    /\ \E pass \in queried : distance_cutoff \in CandidateDists(pass)

\* C3: a list returned by search_image is ascending in dist
C3_Sorted == pc = "done" => Ascending(ret.value)

\* C3 case: the merged list was not in dist order before the sort
C3_Witness == pc = "done" /\ ~Ascending(Unique(result))

\* C4: with all_orientations the passes are the deduplicated Cartesian product:
\* each queries a composed transform of the image, each composed transform is
\* queried, and no two passes query with the same pixel data
C4_CartesianPasses ==
    (pc = "done" /\ all_orientations) =>
        /\ \A pass \in queried : \E t \in product : pass[2] = Compose(t, img)
        /\ \A t \in product : \E pass \in queried : pass[2] = Compose(t, img)
        /\ \A p1, p2 \in queried : p1[2] = p2[2] => p1 = p2

\* C6: once a store search of the call has failed the call ends with the
\* error and returns no list; a returned list comes from a call whose every
\* pass was answered
C6_FailLoudly ==
    /\ es_failed => (pc = "error" /\ ret = Raised)
    /\ pc = "done" =>
          /\ ret.kind = "return"
          /\ {pass[1] : pass \in queried} = orientations(all_orientations)

\* C6 case: a pass failed after earlier passes had gathered candidates
C6_Witness == pc = "error" /\ es_failed /\ result # <<>>

\* C9: the entry returned for an id is its first occurrence in the batches as
\* appended
C9_FirstSeen ==
    pc = "done" =>
        /\ {ret.value[k].id : k \in 1..Len(ret.value)}
              = {result[i].id : i \in 1..Len(result)}
        /\ \A k \in 1..Len(ret.value) :
              ret.value[k] = result[FirstIndex(result, ret.value[k].id)]

\* C9 case: a later pass reported a kept id with a lower dist
C9_Witness ==
    /\ pc = "done"
    /\ \E k \in 1..Len(ret.value), i \in 1..Len(result) :
          result[i].id = ret.value[k].id /\ result[i].dist < ret.value[k].dist

\* C10: the same call repeated on the unchanged store returns the same
\* (id, dist) pairs
C10_Deterministic == (pc = "done" /\ prev # {}) => prev = {Pairs(ret.value)}

\* C5: delete_duplicates(path) that completes without a store failure on a
\* store holding k >= 1 documents of that path leaves exactly one of them
\* and performs k - 1 deletions
C5_OneSurvivor ==
    (last.op = "delete_duplicates" /\ ~last.raised /\ last.k >= 1) =>
        /\ Cardinality({i \in DOMAIN store : store[i].path = last.path}) = 1
        /\ last.deleted = last.k - 1

\* C7: a successful insertion stamps the record with the current time, writes
\* exactly one document, and returns the id the store assigned
C7_ReturnsId ==
    (last.op = "insert_single_record" /\ ~last.raised) =>
        /\ last.rec_out.timestamp = last.time
        /\ DOMAIN store \ DOMAIN last.before = {last.id}
        /\ ret = Returned(<<last.id>>)

\* C7 as the code has it: the record is stamped, exactly one document (the
\* stamped record, under the id the store assigned) is written, no document
\* is changed, and the call returns None
C7_Inserted ==
    (last.op = "insert_single_record" /\ ~last.raised) =>
        /\ last.rec_out.timestamp = last.time
        /\ DOMAIN store \ DOMAIN last.before = {last.id}
        /\ store[last.id] = last.rec_out
        /\ \A i \in DOMAIN last.before : store[i] = last.before[i]
        /\ ret = Returned(<<>>)

\* C7 case: an insertion into a store that already holds documents
C7_Witness ==
    /\ last.op = "insert_single_record" /\ ~last.raised
    /\ DOMAIN last.before # {}

\* C8: the record handed to search_single_record or insert_single_record is
\* the same after the call as before it
C8_RecordUntouched ==
    last.op \in {"search_single_record", "insert_single_record"} =>
        last.rec_out = last.rec_in

\* C8 as the code has it: search_single_record leaves only simple_words in
\* the record, unchanged; insert_single_record adds timestamp and leaves the
\* other fields as they were; both whether the call succeeds or fails
C8_RecordEffect ==
    /\ last.op = "search_single_record" =>
          /\ DOMAIN last.rec_out = {"simple_words"}
          /\ last.rec_out.simple_words = last.rec_in.simple_words
    /\ last.op = "insert_single_record" =>
          /\ DOMAIN last.rec_out = DOMAIN last.rec_in \cup {"timestamp"}
          /\ "timestamp" \notin DOMAIN last.rec_in
          /\ \A f \in DOMAIN last.rec_in : last.rec_out[f] = last.rec_in[f]

\* C8 case: a failed search_single_record call on a record with metadata
C8_Witness ==
    /\ last.op = "search_single_record" /\ last.raised
    /\ "metadata" \in DOMAIN last.rec_in

====
